---- MODULE Spec2Model ----
(***************************************************************************)
(* Zircon: the metadata cache (entries and an allocation bitset packed     *)
(* into leased metadata blocks) and the chunkserver RPC adapters.          *)
(*                                                                         *)
(* The metadata cache is modelled with one atomic step per call of the     *)
(* lease agent (leasing.Read, leasing.Write, ListLeases, GetAnyUnleased):  *)
(* those are the suspension points between which other callers run.  The   *)
(* local computation of a handler belongs to the step of the lease-agent   *)
(* call that precedes it.                                                  *)
(***************************************************************************)
EXTENDS Integers, Sequences, FiniteSets, Bags, TLC

(***************************************************************************)
(* Bounds of the model.                                                    *)
(***************************************************************************)
\* calls of the metadata cache made in one behaviour
MaxCalls == 3
\* lease losses and transport failures injected by the environment
MaxFaults == 1
\* width of a ChunkNum in bits (uint64 in the program, scaled down)
ChunkBits == 6

(***************************************************************************)
(* Layout constants of package apis and the universe of the model.        *)
(***************************************************************************)
\* apis.BitsetSize: bytes of allocation bitset at the head of a block (B)
BitsetSize == 1
\* apis.EntrySize: bytes of one entry slot (S)
EntrySize == 3
\* values of apis.EntriesPerBlock (E) the model is run with: with B = 1 the
\* layouts B*8 > 2^E and B*8 = 2^E
Layouts == {2, 3}

\* apis.NoRedirect
NoRedirect == ""

Agents == {"A", "B"}
Procs == {"p1", "p2"}
Blocks == {1, 2}

RECURSIVE Pow2(_)
Pow2(n) == IF n = 0 THEN 1 ELSE 2 * Pow2(n - 1)

\* bit i of a byte
Bit(x, i) == (x \div Pow2(i)) % 2

\* data[off : off+len] of a Go slice (offsets count from 0)
Slice(data, off, len) == SubSeq(data, off + 1, off + len)

\* copy(data[off:], bytes)
Splice(data, off, bytes) ==
    [i \in 1..Len(data) |->
        IF i > off /\ i <= off + Len(bytes) THEN bytes[i - off] ELSE data[i]]

Zeros(n) == [i \in 1..n |-> 0]

(***************************************************************************)
(* Metadata entries and their fixed-width encoding.                        *)
(***************************************************************************)
\* apis.MetadataEntry: the latest committed version and the replica set
MetadataEntry(v, r) == [version |-> v, replicas |-> r]
EmptyEntry == MetadataEntry(0, <<>>)
Entry0 == MetadataEntry(1, <<>>)
Entry1 == MetadataEntry(2, <<>>)
Entry2 == MetadataEntry(1, <<7>>)

\* gob: a length-prefixed message; what follows the message is not read
gobEncode(entry) == <<1 + Len(entry.replicas), entry.version>> \o entry.replicas

\* serializeEntry: encode, pad with zeros up to EntrySize, fail when longer
serializeEntry(entry) ==
    LET buf == gobEncode(entry)
        result == IF Len(buf) < EntrySize
                  THEN buf \o Zeros(EntrySize - Len(buf)) ELSE buf
    IN  IF Len(result) # EntrySize
        THEN [bytes |-> <<>>, err |-> "Missized"]
        ELSE [bytes |-> result, err |-> "nil"]

\* deserializeEntry: decode the message at the head of the slot; a slot that
\* starts with a zero count holds no message
deserializeEntry(data) ==
    LET n == data[1]
    IN  IF n = 0 \/ n + 1 > Len(data)
        THEN [entry |-> EmptyEntry, err |-> "Decode"]
        ELSE [entry |-> MetadataEntry(data[2], SubSeq(data, 3, n + 1)),
              err |-> "nil"]

\* MetadataEntry.Equals
EntryEquals(a, b) == a.version = b.version /\ a.replicas = b.replicas

(***************************************************************************)
(* State.                                                                  *)
(***************************************************************************)
VARIABLES
    EntriesPerBlock, \* apis.EntriesPerBlock (E), fixed by Init
    blocks,          \* lease store: block id -> [data, version]
    owner,           \* lease store: block id -> lease holder, or NoRedirect
    pc,              \* per caller: position inside the handler it runs
    loc,             \* per caller: arguments and locals of the running handler
    res,             \* per caller: what its last call returned
    calls,           \* per caller: calls started so far
    faults,          \* lease losses and transport failures so far
    overlap,         \* pairs of callers whose latest calls overlapped in time
    handed,          \* bag of the chunk numbers NewEntry returned since the
                     \* last successful DeleteEntry
    rpc,             \* the Read call in flight through the RPC adapters
    srv,             \* PublishChunkserver: the http server and its serve goroutine
    td,              \* PublishChunkserver: the calls of the teardown handle
    cs,              \* the chunkserver behind the wire handler: one chunk of a replica
    wr,              \* the writers that call the chunkserver through the wire handler
    conv,            \* a chunk number put together and taken apart
    reps,            \* the replicas of one chunk, each behind its wire handler
    cl               \* the clients that run the two-phase write on the replicas

mcVars == <<EntriesPerBlock, blocks, owner, pc, loc, res, calls, faults,
            overlap, handed>>

\* the state of the other components
others == <<rpc, srv, td, cs, wr, conv, reps, cl>>

\* what the steps of one component leave alone
notRpc == <<mcVars, srv, td, cs, wr, conv, reps, cl>>
notServe == <<mcVars, rpc, cs, wr, conv, reps, cl>>
notChunkserver == <<mcVars, rpc, srv, td, conv, reps, cl>>
notConv == <<mcVars, rpc, srv, td, cs, wr, reps, cl>>
notReplicated == <<mcVars, rpc, srv, td, cs, wr, conv>>

(***************************************************************************)
(* Chunk numbers, block layout and the bitset.                             *)
(***************************************************************************)
\* chunk >> apis.EntriesPerBlock
chunkToBlockID(chunk) == chunk \div Pow2(EntriesPerBlock)

\* (faulty variant: the mask is 1 << E, without the - 1)
chunkToEntryNumber_MaskIsOneBit(chunk) ==
    ((chunk \div Pow2(EntriesPerBlock)) % 2) * Pow2(EntriesPerBlock)

\* uint(chunk) & ((1 << apis.EntriesPerBlock) - 1)
chunkToEntryNumber(chunk) == chunk % Pow2(EntriesPerBlock)

\* uint32(entryN)*apis.EntrySize + apis.BitsetSize
entryNumberToOffset(entryN) == entryN * EntrySize + BitsetSize

chunkToBlockAndOffset(chunk) ==
    [block  |-> chunkToBlockID(chunk),
     offset |-> entryNumberToOffset(chunkToEntryNumber(chunk))]

\* a | b
RECURSIVE Or(_, _)
Or(a, b) ==
    IF a = 0 THEN b
    ELSE IF b = 0 THEN a
    ELSE (IF a % 2 = 1 \/ b % 2 = 1 THEN 1 ELSE 0) + 2 * Or(a \div 2, b \div 2)

\* (faulty variant: the invariant of the chunk location is not checked)
entryAndBlockToChunkNum_Unchecked(metachunk, index) ==
    [chunk |-> Or((metachunk * Pow2(EntriesPerBlock)) % Pow2(ChunkBits), index),
     panic |-> FALSE]

\* panics for block 0 and for an index of 2^E or more; otherwise
\* uint64(metachunk << E) | uint64(index)
entryAndBlockToChunkNum(metachunk, index) ==
    IF metachunk = 0 \/ index >= Pow2(EntriesPerBlock)
    THEN [chunk |-> 0, panic |-> TRUE]
    ELSE [chunk |-> Or((metachunk * Pow2(EntriesPerBlock)) % Pow2(ChunkBits), index),
          panic |-> FALSE]

getBitsetInData(bitset, index) == Bit(bitset[(index \div 8) + 1], index % 8) # 0

\* (faulty variant: clearing keeps `cell & mask`, the complement of the mask forgotten)
updateBitsetInData_KeepsMask(bitset, index, value) ==
    LET cell == bitset[(index \div 8) + 1]
        mask == Pow2(index % 8)
        isSet == Bit(cell, index % 8) = 1
    IN  [offset |-> index \div 8,
         data   |-> << IF value
                       THEN (IF isSet THEN cell ELSE cell + mask)
                       ELSE (IF isSet THEN mask ELSE 0) >>]

\* the write that sets or clears one bit: (offset, data) of the bitset cell
updateBitsetInData(bitset, index, value) ==
    LET cell == bitset[(index \div 8) + 1]
        mask == Pow2(index % 8)
        isSet == Bit(cell, index % 8) = 1
    IN  [offset |-> index \div 8,
         data   |-> << IF value
                       THEN (IF isSet THEN cell ELSE cell + mask)
                       ELSE (IF isSet THEN cell - mask ELSE cell) >>]

RECURSIVE findFirstZeroFrom(_, _)
findFirstZeroFrom(x, i) ==
    IF i >= 8 THEN 8
    ELSE IF x % 2 = 0 THEN i
    ELSE findFirstZeroFrom(x \div 2, i + 1)

\* (faulty variant: the highest zero bit instead of the lowest)
findFirstZero_Highest(x) ==
    IF \A i \in 0..7 : Bit(x, i) = 1 THEN 8
    ELSE CHOOSE i \in 0..7 : Bit(x, i) = 0 /\ \A j \in (i + 1)..7 : Bit(x, j) = 1

\* index of the lowest zero bit of x (8: the panic "had no zeroes!")
findFirstZero(x) == findFirstZeroFrom(x, 0)

RECURSIVE findAvailableCellFrom(_, _)
findAvailableCellFrom(bitset, i) ==
    IF i > Len(bitset) THEN [index |-> 0, found |-> FALSE]
    ELSE IF bitset[i] # 255
         THEN [index |-> (i - 1) * 8 + findFirstZero(bitset[i]), found |-> TRUE]
         ELSE findAvailableCellFrom(bitset, i + 1)

\* first cell that is not 0xFF, and its lowest zero bit
findAvailableCell(bitset) == findAvailableCellFrom(bitset, 1)

BlockSize == BitsetSize + Pow2(EntriesPerBlock) * EntrySize

(***************************************************************************)
(* The lease agent (package leasing), as the metadata cache sees it.       *)
(***************************************************************************)
\* leasing.Read: the block and its version when this agent holds the lease,
\* else NotOwner and the name of the lease holder
leasingRead(agent, metachunk) ==
    IF metachunk \in Blocks /\ owner[metachunk] = agent
    THEN [data |-> blocks[metachunk].data, version |-> blocks[metachunk].version,
          owner |-> NoRedirect, err |-> "nil"]
    ELSE [data |-> <<>>, version |-> 0,
          owner |-> IF metachunk \in Blocks THEN owner[metachunk] ELSE NoRedirect,
          err |-> "NotOwner"]

\* leasing.Write: a conditional sub-range write.  A failed write changes nothing;
\* a committed one increments the block version.
leasingWrite(agent, metachunk, version, offset, bytes, fault) ==
    LET err == IF fault THEN "Transport"
               ELSE IF ~(metachunk \in Blocks /\ owner[metachunk] = agent)
                    THEN "NotOwner"
               ELSE IF blocks[metachunk].version # version THEN "VersionMismatch"
               ELSE "nil"
    IN  [err    |-> err,
         owner  |-> IF err = "NotOwner" /\ metachunk \in Blocks
                    THEN owner[metachunk] ELSE NoRedirect,
         blocks |-> IF err = "nil"
                    THEN [blocks EXCEPT ![metachunk] =
                            [data    |-> Splice(@.data, offset, bytes),
                             version |-> @.version + 1]]
                    ELSE blocks]

\* leasing.ListLeases: the blocks this agent holds, in ascending order
RECURSIVE SortedSeq(_)
SortedSeq(S) ==
    IF S = {} THEN <<>>
    ELSE LET m == CHOOSE x \in S : \A y \in S : x <= y
         IN  <<m>> \o SortedSeq(S \ {m})

leasingListLeases(agent) == SortedSeq({b \in Blocks : owner[b] = agent})

(***************************************************************************)
(* Callers.                                                                *)
(***************************************************************************)
IdleLoc ==
    [op |-> "", agent |-> "", chunk |-> 0, previous |-> EmptyEntry,
     entry |-> EmptyEntry, metachunk |-> 0, index |-> 0, version |-> 0,
     woff |-> 0, wdata |-> <<>>, leases |-> <<>>, werr |-> "nil", commits |-> 0]
\* (werr: the error of the last leasing.Write of the running call; commits: the
\* writes of the running call that the lease agent committed)

NoResult ==
    [op |-> "", agent |-> "", chunk |-> 0, previous |-> EmptyEntry,
     entry |-> EmptyEntry, out |-> EmptyEntry, redirect |-> NoRedirect,
     err |-> "nil", commits |-> 0]
\* (commits: the writes of the call that the lease agent committed)

CallLoc(op, agent, chunk, previous, entry) ==
    [IdleLoc EXCEPT !.op = op, !.agent = agent, !.chunk = chunk,
                    !.previous = previous, !.entry = entry]

\* what the call described by l returns
Result(l, out, redirect, err) ==
    [op |-> l.op, agent |-> l.agent, chunk |-> l.chunk, previous |-> l.previous,
     entry |-> l.entry, out |-> out, redirect |-> redirect, err |-> err,
     commits |-> l.commits]

Commit(l) == [l EXCEPT !.commits = @ + 1]

Return(p, r) ==
    /\ pc' = [pc EXCEPT ![p] = "idle"]
    /\ loc' = [loc EXCEPT ![p] = IdleLoc]
    /\ res' = [res EXCEPT ![p] = r]

Goto(p, label, l) ==
    /\ pc' = [pc EXCEPT ![p] = label]
    /\ loc' = [loc EXCEPT ![p] = l]
    /\ UNCHANGED res

RECURSIVE Sum(_, _)
Sum(f, S) == IF S = {} THEN 0
             ELSE LET x == CHOOSE y \in S : TRUE IN f[x] + Sum(f, S \ {x})

TotalCalls == Sum(calls, Procs)

\* a caller starts a call
Begin(p) ==
    /\ pc[p] = "idle"
    /\ TotalCalls < MaxCalls
    /\ calls' = [calls EXCEPT ![p] = @ + 1]
    /\ overlap' = {s \in overlap : p \notin s}
                    \cup {{p, q} : q \in {x \in Procs \ {p} : pc[x] # "idle"}}

\* chunk numbers and entries the callers pass
\* (entries 0 and 1 of block 2; each caller has one new entry to write)
ChunkArgs == {entryAndBlockToChunkNum(2, i).chunk : i \in 0..1}
PreviousArgs == {Entry0, Entry1}
EntryArgs(p) == IF p = "p1" THEN {Entry1} ELSE {Entry2}

(***************************************************************************)
(* ReadEntry                                                               *)
(***************************************************************************)
\* (faulty variant: the allocation bit is not consulted)
ReadEntryResult_IgnoresBit(l) ==
    LET mo == chunkToBlockAndOffset(l.chunk)
        r  == leasingRead(l.agent, mo.block)
    IN  IF r.err # "nil" THEN Result(l, EmptyEntry, r.owner, r.err)
        ELSE LET d == deserializeEntry(Slice(r.data, mo.offset, EntrySize))
             IN  IF d.err # "nil"
                 THEN Result(l, EmptyEntry, NoRedirect, d.err)
                 ELSE Result(l, d.entry, NoRedirect, "nil")

ReadEntryResult(l) ==
    LET mo == chunkToBlockAndOffset(l.chunk)
        r  == leasingRead(l.agent, mo.block)
    IN  IF r.err # "nil" THEN Result(l, EmptyEntry, r.owner, r.err)
        ELSE IF ~getBitsetInData(r.data, chunkToEntryNumber(l.chunk))
        THEN Result(l, EmptyEntry, NoRedirect, "NotFound")
        ELSE LET d == deserializeEntry(Slice(r.data, mo.offset, EntrySize))
             IN  IF d.err # "nil"
                 THEN Result(l, EmptyEntry, NoRedirect, d.err)
                 ELSE Result(l, d.entry, NoRedirect, "nil")

ReadEntry(p, agent, chunk) ==
    /\ Begin(p)
    /\ Return(p, ReadEntryResult(CallLoc("ReadEntry", agent, chunk, EmptyEntry, EmptyEntry)))
    /\ UNCHANGED <<others, EntriesPerBlock, blocks, owner, faults, handed>>

(***************************************************************************)
(* UpdateEntry                                                             *)
(***************************************************************************)
\* one pass of the loop, from the block that was read up to the call of
\* leasing.Write.  The entry that is serialized is the local `entry` just read
\* from the slot, which shadows the parameter of the same name.
UpdateEntryChecks(p, l, r) ==
    LET mo == chunkToBlockAndOffset(l.chunk)
    IN  IF ~getBitsetInData(r.data, chunkToEntryNumber(l.chunk))
        THEN Return(p, Result(l, EmptyEntry, NoRedirect, "NotFound"))
        ELSE LET d == deserializeEntry(Slice(r.data, mo.offset, EntrySize))
             IN  IF d.err # "nil"
                 THEN Return(p, Result(l, EmptyEntry, NoRedirect, d.err))
                 ELSE IF ~EntryEquals(d.entry, l.previous)
                 THEN Return(p, Result(l, EmptyEntry, NoRedirect, "PreconditionFailed"))
                 ELSE LET updated == serializeEntry(d.entry)
                      IN  IF updated.err # "nil"
                          THEN Return(p, Result(l, EmptyEntry, NoRedirect, updated.err))
                          ELSE Goto(p, "UpdateEntryWrite",
                                    [l EXCEPT !.metachunk = mo.block,
                                              !.version = r.version,
                                              !.woff = mo.offset,
                                              !.wdata = updated.bytes,
                                              !.werr = "nil"])

\* (faulty variant: the owner that leasing.Read names is dropped)
UpdateEntryRead_DropsOwner(p, l) ==
    LET r == leasingRead(l.agent, chunkToBlockID(l.chunk))
    IN  IF r.err # "nil" THEN Return(p, Result(l, EmptyEntry, NoRedirect, r.err))
        ELSE UpdateEntryChecks(p, l, r)

\* one pass of the loop up to the call of leasing.Write
UpdateEntryRead(p, l) ==
    LET r == leasingRead(l.agent, chunkToBlockID(l.chunk))
    IN  IF r.err # "nil" THEN Return(p, Result(l, EmptyEntry, r.owner, r.err))
        ELSE UpdateEntryChecks(p, l, r)

UpdateEntry(p, agent, chunk, previous, entry) ==
    /\ Begin(p)
    /\ UpdateEntryRead(p, CallLoc("UpdateEntry", agent, chunk, previous, entry))
    /\ UNCHANGED <<others, EntriesPerBlock, blocks, owner, faults, handed>>

\* "version mismatch; go around again and re-attempt changes"
UpdateEntryRetry(p) ==
    /\ pc[p] = "UpdateEntryRead"
    /\ UpdateEntryRead(p, loc[p])
    /\ UNCHANGED <<others, EntriesPerBlock, blocks, owner, calls, faults, overlap, handed>>

\* (faulty variant: the loop is not left after a committed write)
CasWrite_LoopsAfterCommit(p, fault, again) ==
    LET l == loc[p]
        w == leasingWrite(l.agent, l.metachunk, l.version, l.woff, l.wdata, fault)
    IN  /\ fault => faults < MaxFaults
        /\ faults' = IF fault THEN faults + 1 ELSE faults
        /\ blocks' = w.blocks
        /\ IF w.err = "nil" THEN Goto(p, again, Commit(l))
           ELSE IF l.version = 0 THEN Return(p, Result(l, EmptyEntry, w.owner, w.err))
           ELSE Goto(p, again, [l EXCEPT !.werr = w.err])

\* the call of leasing.Write and what follows it
CasWrite(p, fault, again) ==
    LET l == loc[p]
        w == leasingWrite(l.agent, l.metachunk, l.version, l.woff, l.wdata, fault)
    IN  /\ fault => faults < MaxFaults
        /\ faults' = IF fault THEN faults + 1 ELSE faults
        /\ blocks' = w.blocks
        /\ IF w.err = "nil" THEN Return(p, Result(Commit(l), EmptyEntry, NoRedirect, "nil"))
           ELSE IF l.version = 0 THEN Return(p, Result(l, EmptyEntry, w.owner, w.err))
           ELSE Goto(p, again, [l EXCEPT !.werr = w.err])

UpdateEntryWrite(p, fault) ==
    /\ pc[p] = "UpdateEntryWrite"
    /\ CasWrite(p, fault, "UpdateEntryRead")
    /\ UNCHANGED <<others, EntriesPerBlock, owner, calls, overlap, handed>>

(***************************************************************************)
(* DeleteEntry                                                             *)
(***************************************************************************)
\* one pass of the loop, from the block that was read up to the call of
\* leasing.Write
DeleteEntryChecks(p, l, r) ==
    LET mo == chunkToBlockAndOffset(l.chunk)
    IN  IF ~getBitsetInData(r.data, chunkToEntryNumber(l.chunk))
        THEN Return(p, Result(l, EmptyEntry, NoRedirect, "NotFound"))
        ELSE LET d == deserializeEntry(Slice(r.data, mo.offset, EntrySize))
             IN  IF d.err # "nil"
                 THEN Return(p, Result(l, EmptyEntry, NoRedirect, d.err))
                 ELSE IF ~EntryEquals(d.entry, l.previous)
                 THEN Return(p, Result(l, EmptyEntry, NoRedirect, "PreconditionFailed"))
                 ELSE LET u == updateBitsetInData(r.data, chunkToEntryNumber(l.chunk), FALSE)
                      IN  Goto(p, "DeleteEntryWrite",
                               [l EXCEPT !.metachunk = mo.block,
                                         !.version = r.version,
                                         !.woff = u.offset,
                                         !.wdata = u.data,
                                         !.werr = "nil"])

\* one pass of the loop up to the call of leasing.Write
DeleteEntryRead(p, l) ==
    LET r == leasingRead(l.agent, chunkToBlockID(l.chunk))
    IN  IF r.err # "nil" THEN Return(p, Result(l, EmptyEntry, r.owner, r.err))
        ELSE DeleteEntryChecks(p, l, r)

DeleteEntry(p, agent, chunk, previous) ==
    /\ Begin(p)
    /\ DeleteEntryRead(p, CallLoc("DeleteEntry", agent, chunk, previous, EmptyEntry))
    /\ UNCHANGED <<others, EntriesPerBlock, blocks, owner, faults, handed>>

DeleteEntryRetry(p) ==
    /\ pc[p] = "DeleteEntryRead"
    /\ DeleteEntryRead(p, loc[p])
    /\ UNCHANGED <<others, EntriesPerBlock, blocks, owner, calls, faults, overlap, handed>>

DeleteEntryWrite(p, fault) ==
    /\ pc[p] = "DeleteEntryWrite"
    /\ CasWrite(p, fault, "DeleteEntryRead")
    /\ handed' = IF pc'[p] = "idle" /\ res'[p].err = "nil" THEN EmptyBag ELSE handed
    /\ UNCHANGED <<others, EntriesPerBlock, owner, calls, overlap>>

(***************************************************************************)
(* NewEntry                                                                *)
(***************************************************************************)
\* findAnyFreeChunk, first part: ListLeases of findAnyLeasedFreeChunk
findAnyFreeChunk(p, l) ==
    LET leases == leasingListLeases(l.agent)
    IN  IF leases = <<>>
        THEN Goto(p, "GetAnyUnleased", [l EXCEPT !.leases = <<>>])
        ELSE Goto(p, "findAnyLeasedFreeChunk", [l EXCEPT !.leases = leases])

NewEntry(p, agent) ==
    /\ Begin(p)
    /\ findAnyFreeChunk(p, CallLoc("NewEntry", agent, 0, EmptyEntry, EmptyEntry))
    /\ UNCHANGED <<others, EntriesPerBlock, blocks, owner, faults, handed>>

\* "guess we gotta go around again! someone else messed with our chunk."
NewEntryRetry(p) ==
    /\ pc[p] = "NewEntry"
    /\ findAnyFreeChunk(p, loc[p])
    /\ UNCHANGED <<others, EntriesPerBlock, blocks, owner, calls, faults, overlap, handed>>

\* findFreeChunkIn: the index of a free entry of one block
findFreeChunkIn(agent, metachunk) ==
    LET r == leasingRead(agent, metachunk)
    IN  IF r.err # "nil" THEN [index |-> 0, found |-> FALSE, owner |-> r.owner, err |-> r.err]
        ELSE LET c == findAvailableCell(Slice(r.data, 0, BitsetSize))
             IN  [index |-> IF c.found THEN c.index ELSE 0, found |-> c.found,
                  owner |-> NoRedirect, err |-> "nil"]

\* the loop of findAnyLeasedFreeChunk: one leased block per step
findAnyLeasedFreeChunk(p) ==
    /\ pc[p] = "findAnyLeasedFreeChunk"
    /\ LET l == loc[p]
           metachunk == Head(l.leases)
           f == findFreeChunkIn(l.agent, metachunk)
       IN  IF f.err # "nil" THEN Return(p, Result(l, EmptyEntry, NoRedirect, f.err))
           ELSE IF f.found
           THEN Goto(p, "updateBitsetRead",
                     [l EXCEPT !.metachunk = metachunk, !.index = f.index, !.leases = <<>>])
           ELSE IF Tail(l.leases) = <<>>
           THEN Goto(p, "GetAnyUnleased", [l EXCEPT !.leases = <<>>])
           ELSE Goto(p, "findAnyLeasedFreeChunk", [l EXCEPT !.leases = Tail(l.leases)])
    /\ UNCHANGED <<others, EntriesPerBlock, blocks, owner, calls, faults, overlap, handed>>

\* leasing.GetAnyUnleased: some block nobody holds, leased to the caller as a
\* side effect; fails when there is none
GetAnyUnleased(p) ==
    /\ pc[p] = "GetAnyUnleased"
    /\ LET l == loc[p]
           unleased == {b \in Blocks : owner[b] = NoRedirect}
       IN  IF unleased = {}
           THEN /\ Return(p, Result(l, EmptyEntry, NoRedirect, "NoUnleased"))
                /\ UNCHANGED owner
           ELSE \E b \in unleased :
                    /\ owner' = [owner EXCEPT ![b] = l.agent]
                    /\ Goto(p, "findFreeChunkIn", [l EXCEPT !.metachunk = b])
    /\ UNCHANGED <<others, EntriesPerBlock, blocks, calls, faults, overlap, handed>>

\* the loop of findAnyFreeChunk: scan the block GetAnyUnleased returned
findFreeChunkInUnleased(p) ==
    /\ pc[p] = "findFreeChunkIn"
    /\ LET l == loc[p]
           f == findFreeChunkIn(l.agent, l.metachunk)
       IN  IF f.err # "nil" THEN Return(p, Result(l, EmptyEntry, NoRedirect, f.err))
           ELSE IF f.found THEN Goto(p, "updateBitsetRead", [l EXCEPT !.index = f.index])
           ELSE Goto(p, "GetAnyUnleased", [l EXCEPT !.metachunk = 0])
    /\ UNCHANGED <<others, EntriesPerBlock, blocks, owner, calls, faults, overlap, handed>>

\* (faulty variant: the value the bit already has is not compared with the new one)
updateBitsetRead_IgnoresExisting(p) ==
    /\ pc[p] = "updateBitsetRead"
    /\ LET l == loc[p]
           r == leasingRead(l.agent, l.metachunk)
       IN  IF r.err # "nil" THEN Return(p, Result(l, EmptyEntry, NoRedirect, r.err))
           ELSE LET u == updateBitsetInData(Slice(r.data, 0, BitsetSize), l.index, TRUE)
                IN  Goto(p, "updateBitsetWrite",
                         [l EXCEPT !.version = r.version, !.woff = u.offset,
                                   !.wdata = u.data])
    /\ UNCHANGED <<others, EntriesPerBlock, blocks, owner, calls, faults, overlap, handed>>

\* updateBitset(metachunk, index, true) up to the call of leasing.Write
updateBitsetRead(p) ==
    /\ pc[p] = "updateBitsetRead"
    /\ LET l == loc[p]
           r == leasingRead(l.agent, l.metachunk)
       IN  IF r.err # "nil" THEN Return(p, Result(l, EmptyEntry, NoRedirect, r.err))
           ELSE IF getBitsetInData(Slice(r.data, 0, BitsetSize), l.index) = TRUE
           THEN Goto(p, "NewEntry", [l EXCEPT !.metachunk = 0, !.index = 0])
           ELSE LET u == updateBitsetInData(Slice(r.data, 0, BitsetSize), l.index, TRUE)
                IN  Goto(p, "updateBitsetWrite",
                         [l EXCEPT !.version = r.version, !.woff = u.offset,
                                   !.wdata = u.data])
    /\ UNCHANGED <<others, EntriesPerBlock, blocks, owner, calls, faults, overlap, handed>>

\* the call of leasing.Write in updateBitset, and the return of NewEntry
updateBitsetWrite(p, fault) ==
    /\ pc[p] = "updateBitsetWrite"
    /\ fault => faults < MaxFaults
    /\ faults' = IF fault THEN faults + 1 ELSE faults
    /\ LET l == loc[p]
           w == leasingWrite(l.agent, l.metachunk, l.version, l.woff, l.wdata, fault)
           c == entryAndBlockToChunkNum(l.metachunk, l.index)
       IN  /\ blocks' = w.blocks
           /\ IF w.err # "nil"
              THEN /\ Return(p, Result(l, EmptyEntry, NoRedirect, w.err))
                   /\ UNCHANGED handed
              ELSE IF c.panic
              THEN /\ Return(p, Result(Commit(l), EmptyEntry, NoRedirect, "panic"))
                   /\ UNCHANGED handed
              ELSE /\ Return(p, Result(Commit([l EXCEPT !.chunk = c.chunk]),
                                       EmptyEntry, NoRedirect, "nil"))
                   /\ handed' = handed (+) SetToBag({c.chunk})
    /\ UNCHANGED <<others, EntriesPerBlock, owner, calls, overlap>>

(***************************************************************************)
(* Environment: a lease expires or is taken away.                          *)
(***************************************************************************)
LoseLease(b) ==
    /\ owner[b] # NoRedirect
    /\ faults < MaxFaults
    /\ faults' = faults + 1
    /\ owner' = [owner EXCEPT ![b] = NoRedirect]
    /\ UNCHANGED <<others, EntriesPerBlock, blocks, pc, loc, res, calls, overlap, handed>>

(***************************************************************************)
(* Initial state: no lease is held and no call is running.  The lease      *)
(* store outlives the agents, and both blocks were written earlier: every  *)
(* bit of block 1 is set; in block 2 entry 0 holds Entry0 and entry 2 is   *)
(* allocated with a slot that was never written.                           *)
(***************************************************************************)
BlockWith(bitset) ==
    [data |-> Splice(Splice(Zeros(BlockSize), 0, <<bitset>>),
                     entryNumberToOffset(0), serializeEntry(Entry0).bytes),
     version |-> 1]

InitialBlocks == [b \in Blocks |-> IF b = 1 THEN BlockWith(255) ELSE BlockWith(5)]

\* the agent a caller talks to: p1 to A, the others to any agent
AgentsOf(p) == IF p = "p1" THEN {"A"} ELSE Agents

McInit ==
    /\ EntriesPerBlock \in Layouts
    /\ blocks = InitialBlocks
    /\ owner = [b \in Blocks |-> NoRedirect]
    /\ pc = [p \in Procs |-> "idle"]
    /\ loc = [p \in Procs |-> IdleLoc]
    /\ res = [p \in Procs |-> NoResult]
    /\ calls = [p \in Procs |-> 0]
    /\ faults = 0
    /\ overlap = {}
    /\ handed = EmptyBag

McNext ==
    \/ \E p \in Procs, a \in Agents, c \in ChunkArgs :
          a \in AgentsOf(p) /\ ReadEntry(p, a, c)
    \/ \E p \in Procs, a \in Agents, c \in ChunkArgs, prev \in PreviousArgs :
          \E e \in EntryArgs(p) : a \in AgentsOf(p) /\ UpdateEntry(p, a, c, prev, e)
    \/ \E p \in Procs : UpdateEntryRetry(p)
    \/ \E p \in Procs, fault \in BOOLEAN : UpdateEntryWrite(p, fault)
    \/ \E p \in Procs, a \in Agents, c \in ChunkArgs, prev \in PreviousArgs :
          a \in AgentsOf(p) /\ DeleteEntry(p, a, c, prev)
    \/ \E p \in Procs : DeleteEntryRetry(p)
    \/ \E p \in Procs, fault \in BOOLEAN : DeleteEntryWrite(p, fault)
    \/ \E p \in Procs, a \in Agents : a \in AgentsOf(p) /\ NewEntry(p, a)
    \/ \E p \in Procs : NewEntryRetry(p)
    \/ \E p \in Procs : findAnyLeasedFreeChunk(p)
    \/ \E p \in Procs : GetAnyUnleased(p)
    \/ \E p \in Procs : findFreeChunkInUnleased(p)
    \/ \E p \in Procs : updateBitsetRead(p)
    \/ \E p \in Procs, fault \in BOOLEAN : updateBitsetWrite(p, fault)
    \/ \E b \in Blocks : LoseLease(b)

vars == <<mcVars, others>>

(***************************************************************************)
(* NewEntry alone, with leases that expire at any time: the steps of a     *)
(* running NewEntry call are taken as long as they are possible (each call *)
(* runs on its own task), the expiry of a lease is up to the environment.  *)
(***************************************************************************)
LeaseExpires(b) ==
    /\ owner[b] # NoRedirect
    /\ owner' = [owner EXCEPT ![b] = NoRedirect]
    /\ UNCHANGED <<others, EntriesPerBlock, blocks, pc, loc, res, calls, faults,
                   overlap, handed>>

\* the next step of the NewEntry call that caller p runs
NewEntryStep(p) ==
    \/ NewEntryRetry(p)
    \/ findAnyLeasedFreeChunk(p)
    \/ GetAnyUnleased(p)
    \/ findFreeChunkInUnleased(p)
    \/ updateBitsetRead(p)
    \/ \E fault \in BOOLEAN : updateBitsetWrite(p, fault)

AllocNext ==
    \/ \E p \in Procs, a \in Agents : a \in AgentsOf(p) /\ NewEntry(p, a)
    \/ \E p \in Procs : NewEntryStep(p)
    \/ \E b \in Blocks : LeaseExpires(b)


(***************************************************************************)
(* The RPC adapters of the chunkserver: Read.                              *)
(*                                                                         *)
(* A Go error is nil or carries a message; rpc follows one Read call from  *)
(* the wire client (proxyTwirpAsChunkserver) through the transport to the  *)
(* wire handler (proxyChunkserverAsTwirp) and back.                        *)
(***************************************************************************)
Nil == [isNil |-> TRUE, msg |-> ""]
Err(msg) == [isNil |-> FALSE, msg |-> msg]

\* conversions to the integer types of the wire: uint64 has the width of a
\* ChunkNum, uint32 is narrower (widths scaled down)
Uint64(x) == x % Pow2(ChunkBits)
Uint32(x) == x % Pow2(ChunkBits - 1)

\* what the callers pass and what the chunkserver behind the handler answers
RpcChunks == {7}
RpcOffsets == {0, 1}
RpcLengths == {5}
RpcVersions == {0, 1, 2}
RpcData == {<<>>, <<104, 105>>}
RpcErrors == {Nil, Err("stale replica"), Err("")}

RpcIdle == [stage |-> "idle"]

\* proxyTwirpAsChunkserver.Read: the request put on the wire
ReadRequest(chunk, offset, length, minimum) ==
    [Chunk |-> Uint64(chunk), Offset |-> Uint32(offset),
     Length |-> Uint32(length), Version |-> Uint64(minimum)]

\* proxyChunkserverAsTwirp.Read: the arguments handed to the chunkserver
ReadArguments(input) ==
    [chunk |-> input.Chunk, offset |-> input.Offset, length |-> input.Length,
     minimum |-> input.Version]

\* proxyChunkserverAsTwirp.Read: the response made of what the chunkserver
\* returned; an error with an empty message is a panic
ReadResponse(data, version, err) ==
    LET message == IF err.isNil THEN "" ELSE err.msg
    IN  IF ~err.isNil /\ message = ""
        THEN [panic |-> TRUE, Data |-> <<>>, Version |-> 0, Error |-> ""]
        ELSE [panic |-> FALSE, Data |-> data, Version |-> Uint64(version),
              Error |-> message]

\* (faulty variant: the version is dropped with the data when the response is an error)
ReadReturn_DropsVersion(result, err) ==
    IF ~err.isNil THEN [data |-> <<>>, version |-> 0, err |-> err]
    ELSE IF result.Error # ""
    THEN [data |-> <<>>, version |-> 0, err |-> Err(result.Error)]
    ELSE [data |-> result.Data, version |-> result.Version, err |-> Nil]

\* proxyTwirpAsChunkserver.Read: what the caller gets for the response, or for
\* the error of the transport
ReadReturn(result, err) ==
    IF ~err.isNil THEN [data |-> <<>>, version |-> 0, err |-> err]
    ELSE IF result.Error # ""
    THEN [data |-> <<>>, version |-> result.Version, err |-> Err(result.Error)]
    ELSE [data |-> result.Data, version |-> result.Version, err |-> Nil]

\* the caller invokes Read on the wire client
RpcCall(chunk, offset, length, minimum) ==
    /\ rpc.stage = "idle"
    /\ rpc' = [stage |-> "request",
               args |-> [chunk |-> chunk, offset |-> offset, length |-> length,
                         minimum |-> minimum],
               request |-> ReadRequest(chunk, offset, length, minimum)]
    /\ UNCHANGED notRpc

\* the handler runs: the chunkserver behind it answers (data, version, err)
RpcServe(data, version, err) ==
    /\ rpc.stage = "request"
    /\ rpc' = [stage |-> "served",
               args |-> rpc.args,
               served |-> ReadArguments(rpc.request),
               under |-> [data |-> data, version |-> version, err |-> err],
               response |-> ReadResponse(data, version, err)]
    /\ UNCHANGED notRpc

\* the response reaches the wire client; a handler that panicked sends none,
\* and the call ends with an error of the transport
RpcReturn ==
    /\ rpc.stage = "served"
    /\ rpc' = [stage |-> "returned",
               args |-> rpc.args,
               served |-> rpc.served,
               under |-> rpc.under,
               transport |-> IF rpc.response.panic THEN "failed" ELSE "ok",
               response |-> rpc.response,
               result |-> IF rpc.response.panic
                          THEN ReadReturn(rpc.response, Err("transport"))
                          ELSE ReadReturn(rpc.response, Nil)]
    /\ UNCHANGED notRpc

\* the transport loses the response, or the request before the handler ran
RpcTransportFails ==
    /\ rpc.stage \in {"request", "served"}
    /\ rpc' = [stage |-> "returned",
               args |-> rpc.args,
               served |-> IF rpc.stage = "served" THEN rpc.served ELSE rpc.args,
               under |-> IF rpc.stage = "served" THEN rpc.under
                         ELSE [data |-> <<>>, version |-> 0, err |-> Nil],
               transport |-> "failed",
               response |-> IF rpc.stage = "served" THEN rpc.response
                            ELSE ReadResponse(<<>>, 0, Nil),
               result |-> ReadReturn(ReadResponse(<<>>, 0, Nil), Err("transport"))]
    /\ UNCHANGED notRpc

RpcNext ==
    \/ \E c \in RpcChunks, o \in RpcOffsets, l \in RpcLengths, v \in RpcVersions :
          RpcCall(c, o, l, v)
    \/ \E d \in RpcData, v \in RpcVersions, e \in RpcErrors : RpcServe(d, v, e)
    \/ RpcReturn
    \/ RpcTransportFails

(***************************************************************************)
(* PublishChunkserver: the serve goroutine and the teardown handle.        *)
(*                                                                         *)
(* The goroutine runs httpServer.Serve(listener), sends the error Serve    *)
(* returned on the unbuffered channel termErr and then runs its deferred   *)
(* function, which sends fmt.Errorf("panic: %v", recover()) on the same    *)
(* channel, whether or not there was a panic.  A send on termErr completes *)
(* in one step with the receive `<-termErr` of a teardown call.            *)
(*                                                                         *)
(* net/http and net, as the code uses them: Serve returns ErrServerClosed  *)
(* once Shutdown was called and closes the listener when it returns;       *)
(* Shutdown closes the listener, waits for the requests in flight and      *)
(* returns nil; Close of a listener that is closed already returns an      *)
(* error.  The message of an error is a sequence of tokens, so that a      *)
(* value formatted into it can be found in it.                             *)
(***************************************************************************)
\* requests the server handles at a time
MaxInflight == 2

Teardowns == {"t1", "t2"}

\* recover() when the goroutine did not panic
NoPanic == "<nil>"
PanicValues == {"boom"}
\* what Serve returns when it fails by itself
ServeErrors == {Err(<<"accept tcp: too many open files">>)}

\* fmt.Errorf("panic: %v", err)
panicError(recovered) == Err(<<"panic: ", recovered>>)

\* fmt.Errorf("multiple errors: { %v } and { %v }", err1, err2)
multipleErrors(err1, err2) ==
    Err(<<"multiple errors: { ">> \o err1.msg \o <<" } and { ">> \o err2.msg \o <<" }">>)

\* listener.Close()
listenerClose(closed) ==
    IF closed THEN Err(<<"close tcp: use of closed network connection">>) ELSE Nil

\* what teardown returns for err1 and err2
teardownReturn(err1, err2) ==
    IF err1.isNil THEN err2
    ELSE IF err2.isNil THEN err1
    ELSE multipleErrors(err1, err2)

SrvInit ==
    [serve |-> "serving", err |-> Nil, recovered |-> NoPanic,
     inShutdown |-> FALSE, listenerClosed |-> FALSE, inflight |-> 0, sent |-> 0]

TdIdle == [pc |-> "idle", kill |-> FALSE, err1 |-> Nil, ret |-> Nil, order |-> 0]

\* the server accepts a request
ServeAccept ==
    /\ srv.serve = "serving" /\ ~srv.inShutdown /\ ~srv.listenerClosed
    /\ srv.inflight < MaxInflight
    /\ srv' = [srv EXCEPT !.inflight = @ + 1]
    /\ UNCHANGED <<td, notServe>>

\* a request in flight finishes
ServeFinish ==
    /\ srv.inflight > 0
    /\ srv' = [srv EXCEPT !.inflight = @ - 1]
    /\ UNCHANGED <<td, notServe>>

\* Serve returns ErrServerClosed after Shutdown: err = nil
ServeClosed ==
    /\ srv.serve = "serving" /\ srv.inShutdown
    /\ srv' = [srv EXCEPT !.serve = "sendErr", !.err = Nil, !.listenerClosed = TRUE]
    /\ UNCHANGED <<td, notServe>>

\* Serve fails by itself and returns another error
ServeFails(e) ==
    /\ srv.serve = "serving" /\ ~srv.inShutdown
    /\ srv' = [srv EXCEPT !.serve = "sendErr", !.err = e, !.listenerClosed = TRUE]
    /\ UNCHANGED <<td, notServe>>

\* the serve loop panics: the deferred function runs and recovers the value
ServePanics(v) ==
    /\ srv.serve = "serving"
    /\ srv' = [srv EXCEPT !.serve = "deferSend", !.recovered = v, !.listenerClosed = TRUE]
    /\ UNCHANGED <<td, notServe>>

\* a teardown call receives err2 and returns
Receive(t, err2) ==
    td' = [td EXCEPT ![t] = [@ EXCEPT !.pc = "returned",
                                      !.ret = teardownReturn(td[t].err1, err2),
                                      !.order = srv.sent + 1]]

\* termErr <- err, then the deferred function
SendTermErr(t) ==
    /\ srv.serve = "sendErr" /\ td[t].pc = "recv"
    /\ Receive(t, srv.err)
    /\ srv' = [srv EXCEPT !.serve = "deferSend", !.sent = @ + 1]
    /\ UNCHANGED notServe

\* termErr <- fmt.Errorf("panic: %v", err) in the deferred function
SendPanicErr(t) ==
    /\ srv.serve = "deferSend" /\ td[t].pc = "recv"
    /\ Receive(t, panicError(srv.recovered))
    /\ srv' = [srv EXCEPT !.serve = "done", !.sent = @ + 1]
    /\ UNCHANGED notServe

\* teardown(kill): with kill, Shutdown closes the listener and starts to wait
\* for the requests in flight; without, the call goes on to `<-termErr`
Teardown(t, kill) ==
    /\ td[t].pc = "idle"
    /\ IF kill
       THEN /\ srv' = [srv EXCEPT !.inShutdown = TRUE, !.listenerClosed = TRUE]
            /\ td' = [td EXCEPT ![t] = [@ EXCEPT !.pc = "Shutdown", !.kill = TRUE]]
       ELSE /\ td' = [td EXCEPT ![t] = [@ EXCEPT !.pc = "recv", !.kill = FALSE]]
            /\ UNCHANGED srv
    /\ UNCHANGED notServe

\* Shutdown returns nil once no request is in flight; then listener.Close()
ShutdownReturns(t) ==
    /\ td[t].pc = "Shutdown" /\ srv.inflight = 0
    /\ td' = [td EXCEPT ![t] = [@ EXCEPT !.pc = "recv",
                                         !.err1 = listenerClose(srv.listenerClosed)]]
    /\ srv' = [srv EXCEPT !.listenerClosed = TRUE]
    /\ UNCHANGED notServe

ServeNext ==
    \/ ServeAccept
    \/ ServeFinish
    \/ ServeClosed
    \/ \E e \in ServeErrors : ServeFails(e)
    \/ \E v \in PanicValues : ServePanics(v)
    \/ \E t \in Teardowns : SendTermErr(t)
    \/ \E t \in Teardowns : SendPanicErr(t)
    \/ \E t \in Teardowns, kill \in BOOLEAN : Teardown(t, kill)
    \/ \E t \in Teardowns : ShutdownReturns(t)

(***************************************************************************)
(* The two-phase write through the wire handler: StartWrite and            *)
(* CommitWrite of proxyChunkserverAsTwirp, called by two writers at a      *)
(* time.  The handlers hold no lock and keep no state; what they call is   *)
(* the chunkserver (the replica engine), one chunk of which is modelled:   *)
(* its committed version and content and its single prepared buffer.       *)
(***************************************************************************)
\* StartWrite calls in one behaviour
MaxStarts == 2

Writers == {"w1", "w2"}
WriteChunks == {7}
WriteOffsets == {1}
WriteData == {<<8>>, <<9>>}
WriteVersions == {1, 2}

NoBuffer == [staged |-> FALSE, offset |-> 0, data |-> <<>>]

\* the CommitHash of a buffer
fingerprint(data) == <<"fingerprint">> \o data

WriteHashes == {fingerprint(d) : d \in WriteData}

\* Chunkserver.StartWrite: stage (offset, data) as the single prepared buffer
chunkserverStartWrite(replica, offset, data) ==
    [replica EXCEPT !.prepared = [staged |-> TRUE, offset |-> offset, data |-> data],
                    !.starts = @ + 1]

\* Chunkserver.CommitWrite: atomically verify the prepared buffer against the
\* hash and the committed version against oldVersion, apply the buffer under
\* the label newVersion and clear it
chunkserverCommitWrite(replica, hash, oldVersion, newVersion) ==
    IF \/ ~replica.prepared.staged
       \/ fingerprint(replica.prepared.data) # hash
       \/ replica.version # oldVersion
    THEN [replica |-> replica, err |-> Err("PreconditionFailed")]
    ELSE [replica |-> [replica EXCEPT
                          !.data = Splice(@, replica.prepared.offset, replica.prepared.data),
                          !.version = newVersion,
                          !.prepared = NoBuffer,
                          !.commits = @ + 1],
          err |-> Nil]

\* proxyTwirpAsChunkserver.CommitWrite: the request put on the wire
CommitWriteRequest(chunk, hash, oldVersion, newVersion) ==
    [Chunk |-> Uint64(chunk), Hash |-> hash,
     OldVersion |-> Uint64(oldVersion), NewVersion |-> Uint64(newVersion)]

\* (faulty variant: the two versions are handed over in the wrong order)
CommitWriteArguments_SwapsVersions(input) ==
    [chunk |-> input.Chunk, hash |-> input.Hash,
     oldVersion |-> input.NewVersion, newVersion |-> input.OldVersion]

\* proxyChunkserverAsTwirp.CommitWrite: the arguments handed to the chunkserver
CommitWriteArguments(input) ==
    [chunk |-> input.Chunk, hash |-> input.Hash,
     oldVersion |-> input.OldVersion, newVersion |-> input.NewVersion]

\* (starts, commits: the StartWrite calls and the successful commits so far)
CsInit ==
    [version |-> 1, data |-> <<1, 2, 3>>, prepared |-> NoBuffer,
     starts |-> 0, commits |-> 0]

\* (overlapped: the call was in flight together with the other writer's call;
\*  fresh: when the call was made, its hash was the fingerprint of the prepared
\*  buffer and its oldVersion the committed version; starts: the StartWrite
\*  calls that preceded it)
WrIdle ==
    [stage |-> "idle", args |-> [chunk |-> 0, hash |-> <<>>, oldVersion |-> 0,
                                 newVersion |-> 0],
     input |-> CommitWriteRequest(0, <<>>, 0, 0), err |-> Nil,
     overlapped |-> FALSE, fresh |-> FALSE, starts |-> 0]

\* the handler of StartWrite runs
StartWrite(offset, data) ==
    /\ cs.starts < MaxStarts
    /\ cs' = chunkserverStartWrite(cs, offset, data)
    /\ UNCHANGED <<wr, notChunkserver>>

\* a writer calls CommitWrite: the request is in flight
CommitWriteCall(w, chunk, hash, oldVersion, newVersion) ==
    /\ wr[w].stage = "idle"
    /\ LET inFlight == {x \in Writers \ {w} : wr[x].stage = "request"}
       IN  wr' = [x \in Writers |->
                    IF x = w
                    THEN [stage |-> "request",
                          args |-> [chunk |-> chunk, hash |-> hash,
                                    oldVersion |-> oldVersion, newVersion |-> newVersion],
                          input |-> CommitWriteRequest(chunk, hash, oldVersion,
                                                       newVersion),
                          err |-> Nil,
                          overlapped |-> inFlight # {},
                          fresh |-> /\ cs.prepared.staged
                                    /\ fingerprint(cs.prepared.data) = hash
                                    /\ cs.version = oldVersion,
                          starts |-> cs.starts]
                    ELSE IF x \in inFlight THEN [wr[x] EXCEPT !.overlapped = TRUE]
                    ELSE wr[x]]
    /\ UNCHANGED <<cs, notChunkserver>>

\* the handler of CommitWrite runs and its error reaches the writer
CommitWriteServe(w) ==
    /\ wr[w].stage = "request"
    /\ LET a == CommitWriteArguments(wr[w].input)
           r == chunkserverCommitWrite(cs, a.hash, a.oldVersion, a.newVersion)
       IN  /\ cs' = r.replica
           /\ wr' = [wr EXCEPT ![w] = [@ EXCEPT !.stage = "returned", !.err = r.err]]
    /\ UNCHANGED notChunkserver

ChunkserverNext ==
    \/ \E o \in WriteOffsets, d \in WriteData : StartWrite(o, d)
    \/ \E w \in Writers, c \in WriteChunks, h \in WriteHashes :
          \E old \in WriteVersions, new \in WriteVersions :
             CommitWriteCall(w, c, h, old, new)
    \/ \E w \in Writers : CommitWriteServe(w)

(***************************************************************************)
(* Chunk numbers put together and taken apart: the conversions applied to  *)
(* block ids, indices and chunk numbers of the width of a ChunkNum.        *)
(***************************************************************************)
ConvBlocks == 0..(Pow2(ChunkBits) - 1)
ConvIndices == 0..Pow2(ChunkBits - 3)
ConvChunks == 0..(Pow2(ChunkBits) - 1)

ConvIdle ==
    [op |-> "", metachunk |-> 0, index |-> 0, chunk |-> 0, panic |-> FALSE,
     block |-> 0, entry |-> 0, offset |-> 0]

\* entryAndBlockToChunkNum(metachunk, index), and the result taken apart
Compose(metachunk, index) ==
    /\ conv.op = ""
    /\ LET r == entryAndBlockToChunkNum(metachunk, index)
           mo == chunkToBlockAndOffset(r.chunk)
       IN  conv' = [op |-> "compose", metachunk |-> metachunk, index |-> index,
                    chunk |-> r.chunk, panic |-> r.panic,
                    block |-> chunkToBlockID(r.chunk),
                    entry |-> chunkToEntryNumber(r.chunk),
                    offset |-> mo.offset]
    /\ UNCHANGED notConv

\* a chunk number taken apart, and the parts put together again
Decompose(chunk) ==
    /\ conv.op = ""
    /\ LET mo == chunkToBlockAndOffset(chunk)
           r == entryAndBlockToChunkNum(chunkToBlockID(chunk), chunkToEntryNumber(chunk))
       IN  conv' = [op |-> "decompose", metachunk |-> chunkToBlockID(chunk),
                    index |-> chunkToEntryNumber(chunk),
                    chunk |-> chunk, panic |-> r.panic,
                    block |-> chunkToBlockID(r.chunk),
                    entry |-> chunkToEntryNumber(r.chunk),
                    offset |-> mo.offset]
    /\ UNCHANGED notConv

\* the result is used up
ConvDone ==
    /\ conv.op # ""
    /\ conv' = ConvIdle
    /\ UNCHANGED notConv

ConvNext ==
    \/ \E b \in ConvBlocks, i \in ConvIndices : Compose(b, i)
    \/ \E c \in ConvChunks : Decompose(c)
    \/ ConvDone

(***************************************************************************)
(* The two-phase write of a client on every replica of a chunk.  A client  *)
(* computes newVersion = oldVersion + 1 and the hash of its data, calls    *)
(* StartWriteReplicated on a primary, which calls StartWrite on every      *)
(* replica concurrently, and then calls CommitWrite on each replica.       *)
(***************************************************************************)
Replicas == {"r1", "r2"}
ReplicaList == <<"r1", "r2">>
Clients == {"c1", "c2"}

\* the clients write different data
ClientData(c) == IF c = "c1" THEN <<8>> ELSE <<9>>

\* proxyTwirpAsChunkserver.StartWriteReplicated: the request on the wire
StartWriteReplicatedRequest(chunk, offset, data, replicas) ==
    [Chunk |-> Uint64(chunk), Offset |-> Uint32(offset), Data |-> data,
     Address |-> [i \in 1..Len(replicas) |-> replicas[i]]]

\* proxyChunkserverAsTwirp.StartWriteReplicated: the arguments the handler
\* hands to the chunkserver
StartWriteReplicatedArguments(input) ==
    [chunk |-> input.Chunk, offset |-> input.Offset, data |-> input.Data,
     replicas |-> [i \in 1..Len(input.Address) |-> input.Address[i]]]

\* proxyTwirpAsChunkserver.StartWrite: the request on the wire
StartWriteRequest(chunk, offset, data) ==
    [Chunk |-> Uint64(chunk), Offset |-> Uint32(offset), Data |-> data]

\* proxyChunkserverAsTwirp.StartWrite: the arguments the handler hands over
StartWriteArguments(input) ==
    [chunk |-> input.Chunk, offset |-> input.Offset, data |-> input.Data]

ClIdle ==
    [stage |-> "idle", data |-> <<>>, hash |-> <<>>, oldVersion |-> 0,
     newVersion |-> 0, primary |-> "", args |-> StartWriteArguments(
         StartWriteRequest(0, 0, <<>>)), pending |-> {}, toCommit |-> {},
     committed |-> {}, failed |-> {}]

\* step 1 and 2 of the protocol: the client computes the new version and the
\* hash and calls StartWriteReplicated on a primary; the handler of the
\* primary hands the arguments to its chunkserver, which has every replica
\* still to call
ClientStartWriteReplicated(c, primary, chunk, offset, oldVersion) ==
    /\ cl[c].stage = "idle"
    /\ LET data == ClientData(c)
           a == StartWriteReplicatedArguments(
                   StartWriteReplicatedRequest(chunk, offset, data, ReplicaList))
       IN  cl' = [cl EXCEPT ![c] =
                    [stage |-> "StartWriteReplicated", data |-> data,
                     hash |-> fingerprint(data), oldVersion |-> oldVersion,
                     newVersion |-> oldVersion + 1, primary |-> primary,
                     args |-> [chunk |-> a.chunk, offset |-> a.offset,
                               data |-> a.data],
                     pending |-> {a.replicas[i] : i \in 1..Len(a.replicas)},
                     toCommit |-> {}, committed |-> {}, failed |-> {}]]
    /\ UNCHANGED <<reps, notReplicated>>

\* the primary calls StartWrite on one more replica, and the replica stages
\* the data
FanOutStartWrite(c, r) ==
    /\ cl[c].stage = "StartWriteReplicated"
    /\ r \in cl[c].pending
    /\ LET a == StartWriteArguments(
                   StartWriteRequest(cl[c].args.chunk, cl[c].args.offset,
                                     cl[c].args.data))
       IN  reps' = [reps EXCEPT ![r] = chunkserverStartWrite(reps[r], a.offset, a.data)]
    /\ cl' = [cl EXCEPT ![c] = [cl[c] EXCEPT !.pending = cl[c].pending \ {r}]]
    /\ UNCHANGED notReplicated

\* a StartWrite of the primary fails: the failure is surfaced and the client
\* aborts the write without calling CommitWrite
FanOutFails(c, r) ==
    /\ cl[c].stage = "StartWriteReplicated"
    /\ r \in cl[c].pending
    /\ cl' = [cl EXCEPT ![c] = [cl[c] EXCEPT !.stage = "aborted", !.pending = {}]]
    /\ UNCHANGED <<reps, notReplicated>>

\* every replica acknowledged: StartWriteReplicated returns without an error
\* and the client goes on to commit on each replica
StartWriteReplicatedReturns(c) ==
    /\ cl[c].stage = "StartWriteReplicated"
    /\ cl[c].pending = {}
    /\ cl' = [cl EXCEPT ![c] = [cl[c] EXCEPT !.stage = "CommitWrite",
                                             !.toCommit = Replicas]]
    /\ UNCHANGED <<reps, notReplicated>>

\* step 3 of the protocol: the client calls CommitWrite(hash, oldVersion,
\* newVersion) on one more replica
ClientCommitWrite(c, r) ==
    /\ cl[c].stage = "CommitWrite"
    /\ r \in cl[c].toCommit
    /\ LET a == CommitWriteArguments(
                   CommitWriteRequest(cl[c].args.chunk, cl[c].hash,
                                      cl[c].oldVersion, cl[c].newVersion))
           x == chunkserverCommitWrite(reps[r], a.hash, a.oldVersion, a.newVersion)
           left == cl[c].toCommit \ {r}
       IN  /\ reps' = [reps EXCEPT ![r] = x.replica]
           /\ cl' = [cl EXCEPT ![c] =
                       [cl[c] EXCEPT
                          !.toCommit = left,
                          !.committed = IF x.err = Nil THEN cl[c].committed \cup {r}
                                        ELSE cl[c].committed,
                          !.failed = IF x.err = Nil THEN cl[c].failed
                                     ELSE cl[c].failed \cup {r},
                          !.stage = IF left = {} THEN "done" ELSE "CommitWrite"]]
    /\ UNCHANGED notReplicated

ReplicatedNext ==
    \/ \E c \in Clients, primary \in Replicas, chunk \in WriteChunks :
          \E offset \in WriteOffsets, oldVersion \in WriteVersions :
             ClientStartWriteReplicated(c, primary, chunk, offset, oldVersion)
    \/ \E c \in Clients, r \in Replicas : FanOutStartWrite(c, r)
    \/ \E c \in Clients, r \in Replicas : FanOutFails(c, r)
    \/ \E c \in Clients : StartWriteReplicatedReturns(c)
    \/ \E c \in Clients, r \in Replicas : ClientCommitWrite(c, r)

Init ==
    /\ McInit
    /\ rpc = RpcIdle
    /\ srv = SrvInit
    /\ td = [t \in Teardowns |-> TdIdle]
    /\ cs = CsInit
    /\ wr = [w \in Writers |-> WrIdle]
    /\ conv = ConvIdle
    /\ reps = [r \in Replicas |-> CsInit]
    /\ cl = [c \in Clients |-> ClIdle]
Next == McNext
Spec == Init /\ [][Next]_vars

\* the RPC adapters alone
SpecRpc == Init /\ [][RpcNext]_vars

\* the publisher alone
SpecServe == Init /\ [][ServeNext]_vars

\* the two-phase write alone
SpecChunkserver == Init /\ [][ChunkserverNext]_vars

\* the conversions of chunk numbers alone
SpecConv == Init /\ [][ConvNext]_vars

\* the two-phase write of several clients on several replicas alone
SpecReplicated == Init /\ [][ReplicatedNext]_vars

\* NewEntry alone, every running call scheduled again and again
SpecAlloc == Init /\ [][AllocNext]_vars /\ \A p \in Procs : WF_vars(NewEntryStep(p))

(***************************************************************************)
(* Vocabulary of the properties.                                           *)
(***************************************************************************)
\* caller p returns from a call in this step
Returned(p) == pc'[p] = "idle" /\ (pc[p] # "idle" \/ calls'[p] # calls[p])

\* caller p performs the leasing.Read of ReadEntry, UpdateEntry or DeleteEntry
\* in this step, and the arguments of that call
EntryReadStep(p) ==
    \/ /\ calls'[p] # calls[p]
       /\ (IF pc'[p] = "idle" THEN res'[p].op ELSE loc'[p].op)
             \in {"ReadEntry", "UpdateEntry", "DeleteEntry"}
    \/ /\ pc[p] \in {"UpdateEntryRead", "DeleteEntryRead"}
       /\ pc'[p] # pc[p]

ArgsOfStep(p) ==
    IF calls'[p] # calls[p]
    THEN (IF pc'[p] = "idle" THEN res'[p] ELSE loc'[p])
    ELSE loc[p]

\* the slot and the allocation bit of a chunk in a lease store
SlotOf(store, chunk) ==
    Slice(store[chunkToBlockID(chunk)].data,
          BitsetSize + chunkToEntryNumber(chunk) * EntrySize, EntrySize)

AllocatedIn(store, chunk) ==
    LET i == chunkToEntryNumber(chunk)
    IN  Bit(store[chunkToBlockID(chunk)].data[(i \div 8) + 1], i % 8) = 1

Succeeded(r, op) == r.op = op /\ r.err = "nil"

\* the chunk numbers of the entries of the blocks
Chunks == {b * Pow2(EntriesPerBlock) + i : b \in Blocks, i \in 0..(Pow2(EntriesPerBlock) - 1)}

(***************************************************************************)
(* C1.  When UpdateEntry(chunk, previous, next) returns success, the slot  *)
(* of the chunk holds the serialization of next.                           *)
(***************************************************************************)
C1_UpdateStoresNext ==
    [][\A p \in Procs :
          (Returned(p) /\ Succeeded(res'[p], "UpdateEntry"))
              => SlotOf(blocks', res'[p].chunk) = serializeEntry(res'[p].entry).bytes]_vars

(***************************************************************************)
(* C2.  Of two overlapping calls UpdateEntry(c, prev, n1) and              *)
(* UpdateEntry(c, prev, n2) with n1, n2, prev pairwise different, at most  *)
(* one returns success.                                                    *)
(***************************************************************************)
C2_AtMostOneUpdateSucceeds ==
    \A p, q \in Procs :
        ~ /\ p # q
          /\ {p, q} \in overlap
          /\ pc[p] = "idle" /\ pc[q] = "idle"
          /\ Succeeded(res[p], "UpdateEntry") /\ Succeeded(res[q], "UpdateEntry")
          /\ res[p].chunk = res[q].chunk
          /\ res[p].previous = res[q].previous
          /\ res[p].entry # res[q].entry
          /\ res[p].entry # res[p].previous
          /\ res[q].entry # res[q].previous

(***************************************************************************)
(* C3.  The chunk numbers that successful NewEntry calls return, with no   *)
(* successful DeleteEntry in between, are pairwise distinct, whatever the  *)
(* interleaving and whichever agents the calls run on.                     *)
(***************************************************************************)
C3_AllocationUnique == \A c \in BagToSet(handed) : CopiesIn(c, handed) = 1

\* two overlapping NewEntry calls on one agent both returned a chunk number
C3_Witness ==
    /\ {"p1", "p2"} \in overlap
    /\ pc["p1"] = "idle" /\ pc["p2"] = "idle"
    /\ Succeeded(res["p1"], "NewEntry") /\ Succeeded(res["p2"], "NewEntry")
    /\ res["p1"].agent = res["p2"].agent
    /\ chunkToBlockID(res["p1"].chunk) = chunkToBlockID(res["p2"].chunk)
    /\ BagCardinality(handed) >= 2

(***************************************************************************)
(* C4.  After a successful DeleteEntry(c, ..) the allocation bit of c is   *)
(* clear; while the bit of c is clear every ReadEntry, UpdateEntry and     *)
(* DeleteEntry of c on the agent that holds the block returns NotFound     *)
(* with the no-redirect sentinel; the bit is set again only by a NewEntry  *)
(* that returns c; ReadEntry returns no entry for a chunk whose bit is     *)
(* clear.                                                                  *)
(***************************************************************************)
C4_BitsetEntryCoherence ==
    [][/\ \A p \in Procs :
            Returned(p) =>
              LET r == res'[p] IN
              /\ Succeeded(r, "DeleteEntry") => ~AllocatedIn(blocks', r.chunk)
              /\ ( /\ r.op \in {"ReadEntry", "UpdateEntry", "DeleteEntry"}
                   /\ owner[chunkToBlockID(r.chunk)] = r.agent
                   /\ ~AllocatedIn(blocks, r.chunk) )
                   => (r.err = "NotFound" /\ r.redirect = NoRedirect)
              /\ Succeeded(r, "ReadEntry") => AllocatedIn(blocks, r.chunk)
       /\ \A c \in Chunks :
            (~AllocatedIn(blocks, c) /\ AllocatedIn(blocks', c))
              => \E p \in Procs :
                    Returned(p) /\ Succeeded(res'[p], "NewEntry") /\ res'[p].chunk = c
      ]_vars

\* an entry was deleted, and a later ReadEntry of it on the same agent, which
\* still holds the block, answered NotFound
C4_Witness ==
    \E p, q \in Procs :
        /\ Succeeded(res[p], "DeleteEntry")
        /\ res[q].op = "ReadEntry" /\ res[q].chunk = res[p].chunk
        /\ res[q].agent = res[p].agent
        /\ res[q].err = "NotFound" /\ res[q].redirect = NoRedirect
        /\ owner[chunkToBlockID(res[p].chunk)] = res[p].agent
        /\ ~AllocatedIn(blocks, res[p].chunk)

(***************************************************************************)
(* C5.  Whenever leasing.Read answers NotOwner, naming owner B, for the    *)
(* block of the chunk, ReadEntry, UpdateEntry and DeleteEntry return in    *)
(* that step with redirect B and that error, and write nothing.            *)
(***************************************************************************)
C5_RedirectOnNotOwner ==
    [][\A p \in Procs :
          LET a == ArgsOfStep(p)
              r == leasingRead(a.agent, chunkToBlockID(a.chunk))
          IN  (EntryReadStep(p) /\ r.err = "NotOwner")
                => /\ Returned(p)
                   /\ res'[p].err = "NotOwner"
                   /\ res'[p].redirect = r.owner
                   /\ res'[p].commits = 0
                   /\ blocks' = blocks
      ]_vars

\* agent A was asked to update an entry of a block that B holds
C5_Witness ==
    \E p \in Procs :
        /\ pc[p] = "idle"
        /\ res[p].op = "UpdateEntry" /\ res[p].agent = "A"
        /\ res[p].err = "NotOwner" /\ res[p].redirect = "B"

(***************************************************************************)
(* C6.  In the loops of UpdateEntry and DeleteEntry only a VersionMismatch *)
(* of leasing.Write starts another iteration: after any other error of     *)
(* Write the call returns that error.                                      *)
(***************************************************************************)
C6_OnlyVersionMismatchRetries ==
    [][\A p \in Procs :
          (pc[p] \in {"UpdateEntryWrite", "DeleteEntryWrite"} /\ pc'[p] # pc[p])
            => \/ Returned(p)
               \/ loc'[p].werr = "VersionMismatch"
      ]_vars

(***************************************************************************)
(* C7.  NewEntry never returns VersionMismatch to its caller: a lost       *)
(* block-version CAS of the write that sets the bit restarts the search.   *)
(***************************************************************************)
C7_NewEntryRetriesLostCas ==
    \A p \in Procs : ~(res[p].op = "NewEntry" /\ res[p].err = "VersionMismatch")

(***************************************************************************)
(* C8.  A ReadEntry, UpdateEntry or DeleteEntry call that returns an error *)
(* has not changed the bytes or the version of any block.                  *)
(***************************************************************************)
C8_UnchangedOnFailure ==
    [][\A p \in Procs :
          ( /\ Returned(p)
            /\ res'[p].op \in {"ReadEntry", "UpdateEntry", "DeleteEntry"}
            /\ res'[p].err # "nil" )
            => (blocks' = blocks /\ res'[p].commits = 0)
      ]_vars

\* on the agent that holds the block, an UpdateEntry met a slot that differs
\* from `previous` and a DeleteEntry met a slot that does not decode
C8_Witness ==
    \E p, q \in Procs :
        /\ pc[p] = "idle" /\ pc[q] = "idle"
        /\ res[p].op = "UpdateEntry" /\ res[p].err = "PreconditionFailed"
        /\ res[q].op = "DeleteEntry" /\ res[q].err = "Decode"

(***************************************************************************)
(* C9.  A NewEntry call that no other call overlaps returns the lowest     *)
(* clear bit of the first block, in ListLeases order, that has a clear     *)
(* bit; so the entry deleted last is the one handed out next.              *)
(***************************************************************************)
ClearBits(store, b) == {i \in 0..(BitsetSize * 8 - 1) :
                            Bit(store[b].data[(i \div 8) + 1], i % 8) = 0}

Lowest(S) == CHOOSE x \in S : \A y \in S : x <= y

C9_LowestFreeBit ==
    [][\A p \in Procs :
          ( /\ Returned(p) /\ Succeeded(res'[p], "NewEntry")
            /\ \A q \in Procs : {p, q} \notin overlap )
            => LET free == {b \in Blocks : owner[b] = res'[p].agent
                                            /\ ClearBits(blocks, b) # {}}
               IN  /\ free # {}
                   /\ chunkToBlockID(res'[p].chunk) = Lowest(free)
                   /\ chunkToEntryNumber(res'[p].chunk)
                        = Lowest(ClearBits(blocks, Lowest(free)))
      ]_vars

\* DeleteEntry(c) succeeded and the NewEntry that followed returned c
C9_Witness ==
    \E p, q \in Procs :
        /\ pc[p] = "idle" /\ pc[q] = "idle" /\ {p, q} \notin overlap
        /\ Succeeded(res[p], "DeleteEntry") /\ Succeeded(res[q], "NewEntry")
        /\ res[q].chunk = res[p].chunk
        /\ handed = SetToBag({res[q].chunk})

(***************************************************************************)
(* C10.  When the transport succeeds, Read through the wire client and the *)
(* wire handler returns an error exactly when the chunkserver's Read       *)
(* returned one, with the same message and the same version; on success it *)
(* returns the same data and version; the chunkserver was asked what the   *)
(* caller asked; and no response that is emitted for a failed Read has an  *)
(* empty error field.                                                      *)
(***************************************************************************)
C10_ReadThroughAdaptersFaithful ==
    /\ (rpc.stage = "returned" /\ rpc.transport = "ok")
         => /\ rpc.result.err.isNil <=> rpc.under.err.isNil
            /\ rpc.result.version = rpc.under.version
            /\ ~rpc.under.err.isNil => rpc.result.err.msg = rpc.under.err.msg
            /\ rpc.under.err.isNil => rpc.result.data = rpc.under.data
            /\ rpc.served = rpc.args
    /\ (rpc.stage = "served" /\ ~rpc.response.panic /\ ~rpc.under.err.isNil)
         => rpc.response.Error # ""

\* a stale replica answered with an error and its version, and the caller got both
C10_Witness ==
    /\ rpc.stage = "returned" /\ rpc.transport = "ok"
    /\ rpc.under.err = Err("stale replica") /\ rpc.under.version = 1
    /\ rpc.args.minimum = 2
    /\ rpc.result.err = Err("stale replica") /\ rpc.result.version = 1

(***************************************************************************)
(* C11.  The first teardown call to return reports a panic exactly when    *)
(* one happened: after a panic of the serve loop it returns an error that  *)
(* carries the panic value; when the serve loop ended without a panic it   *)
(* returns no panic error but the error Serve ended with, nil for a server *)
(* that was closed.                                                        *)
(***************************************************************************)
Tokens(e) == IF e.isNil THEN {} ELSE {e.msg[i] : i \in 1..Len(e.msg)}

C11_TeardownReportsPanic ==
    \A t \in Teardowns :
        (td[t].pc = "returned" /\ td[t].order = 1)
          => IF srv.recovered # NoPanic
             THEN srv.recovered \in Tokens(td[t].ret)
             ELSE /\ "panic: " \notin Tokens(td[t].ret)
                  /\ IF srv.err.isNil THEN td[t].ret.isNil
                     ELSE Tokens(srv.err) \subseteq Tokens(td[t].ret)

(***************************************************************************)
(* C12.  Both modes of teardown stop the server: a teardown call that has  *)
(* come to wait for the serve loop, or has returned, has made the server   *)
(* stop accepting requests (it does not wait for the server to fail).      *)
(***************************************************************************)
C12_BothModesStopServer ==
    \A t \in Teardowns :
        td[t].pc \in {"recv", "returned"} => srv.inShutdown

(***************************************************************************)
(* C13.  The search of NewEntry is bounded: a NewEntry call, also one for  *)
(* which every block that GetAnyUnleased hands out is full, returns to its *)
(* caller (with a chunk number or an error) instead of looping forever.    *)
(***************************************************************************)
C13_SearchIsBounded ==
    \A p \in Procs : (pc[p] # "idle") ~> (pc[p] = "idle")

(***************************************************************************)
(* C14.  NewEntry returns no chunk number whose block id is 0 or whose     *)
(* entry index is 2^E or more: when the bit of such a candidate was set,   *)
(* the call ends in the panic of entryAndBlockToChunkNum; a chunk number   *)
(* that is returned is the one composed of a legal candidate.              *)
(***************************************************************************)
LegalCandidate(metachunk, index) == metachunk # 0 /\ index < Pow2(EntriesPerBlock)

C14_NoIllegalChunkNum ==
    [][\A p \in Procs :
          (pc[p] = "updateBitsetWrite" /\ Returned(p))
            => LET metachunk == loc[p].metachunk
                   index == loc[p].index
               IN  /\ (~LegalCandidate(metachunk, index) /\ blocks' # blocks)
                         => res'[p].err = "panic"
                   /\ res'[p].err = "nil"
                         => /\ LegalCandidate(metachunk, index)
                            /\ chunkToBlockID(res'[p].chunk) = metachunk
                            /\ chunkToEntryNumber(res'[p].chunk) = index
      ]_vars

\* with B*8 > 2^E, a NewEntry call met a block whose entries are all allocated
\* and ended in the panic, and another one returned a chunk number
C14_Witness ==
    \E p, q \in Procs :
        /\ pc[p] = "idle" /\ res[p].op = "NewEntry" /\ res[p].err = "panic"
        /\ pc[q] = "idle" /\ Succeeded(res[q], "NewEntry")
        /\ chunkToBlockID(res[q].chunk) # 0

(***************************************************************************)
(* C15.  Commits of one chunk are linearizable on oldVersion: of two       *)
(* CommitWrite(chunk, hash, v, v+1) calls that are in flight together on   *)
(* one replica, never both succeed; when both carry the fingerprint of the *)
(* buffer that is prepared, and v is the committed version, exactly one    *)
(* returns ok, the other returns PreconditionFailed, and the committed     *)
(* version goes from v to v+1 once.                                        *)
(***************************************************************************)
C15_CommitLinearizable ==
    \A w, x \in Writers :
        ( /\ w # x
          /\ wr[w].stage = "returned" /\ wr[x].stage = "returned"
          /\ wr[w].overlapped /\ wr[x].overlapped
          /\ wr[w].args.oldVersion = wr[x].args.oldVersion
          /\ wr[w].args.newVersion = wr[w].args.oldVersion + 1
          /\ wr[x].args.newVersion = wr[x].args.oldVersion + 1 )
          => /\ ~(wr[w].err.isNil /\ wr[x].err.isNil)
             /\ ( /\ wr[w].fresh /\ wr[x].fresh
                  /\ wr[w].starts = cs.starts /\ wr[x].starts = cs.starts )
                  => /\ wr[w].err.isNil # wr[x].err.isNil
                     /\ \A y \in {w, x} :
                           ~wr[y].err.isNil => wr[y].err = Err("PreconditionFailed")
                     /\ cs.version = wr[w].args.oldVersion + 1
                     /\ cs.commits = 1

\* two CommitWrite(7, fingerprint, 1, 2) calls were in flight together: one
\* returned ok, the other PreconditionFailed
C15_Witness ==
    /\ wr["w1"].stage = "returned" /\ wr["w2"].stage = "returned"
    /\ wr["w1"].overlapped /\ wr["w2"].overlapped
    /\ wr["w1"].fresh /\ wr["w2"].fresh
    /\ wr["w1"].args = wr["w2"].args
    /\ wr["w1"].args.oldVersion = 1 /\ wr["w1"].args.newVersion = 2
    /\ wr["w1"].err = Nil /\ wr["w2"].err = Err("PreconditionFailed")
    /\ cs.version = 2 /\ cs.commits = 1 /\ cs.starts = wr["w1"].starts

(***************************************************************************)
(* C16.  Frame of the metadata writes: a successful UpdateEntry(c, ..)     *)
(* changes no byte outside the slot of c; a successful DeleteEntry(c, ..)  *)
(* and a NewEntry that returns c change only the allocation bit of c, the  *)
(* other seven bits of the byte they write keeping the values they have    *)
(* when the write commits; all other blocks are unchanged.                 *)
(***************************************************************************)
C16_FrameOfWrites ==
    [][\A p \in Procs :
          ( /\ Returned(p) /\ res'[p].err = "nil"
            /\ res'[p].op \in {"UpdateEntry", "DeleteEntry", "NewEntry"} )
            => LET c == res'[p].chunk
                   b == chunkToBlockID(c)
                   i == chunkToEntryNumber(c)
                   cell == (i \div 8) + 1
                   slot == (entryNumberToOffset(i) + 1)..(entryNumberToOffset(i) + EntrySize)
                   written == IF res'[p].op = "UpdateEntry" THEN slot ELSE {cell}
               IN  /\ \A x \in Blocks \ {b} : blocks'[x] = blocks[x]
                   /\ \A k \in 1..BlockSize :
                         k \notin written => blocks'[b].data[k] = blocks[b].data[k]
                   /\ res'[p].op # "UpdateEntry"
                         => /\ \A j \in 0..7 :
                                 j # i % 8 => Bit(blocks'[b].data[cell], j)
                                                = Bit(blocks[b].data[cell], j)
                            /\ AllocatedIn(blocks', c) = (res'[p].op = "NewEntry")
      ]_vars

\* a DeleteEntry and a NewEntry that overlapped, on two entries of one block,
\* both succeeded
C16_Witness ==
    \E p, q \in Procs :
        /\ {p, q} \in overlap /\ pc[p] = "idle" /\ pc[q] = "idle"
        /\ Succeeded(res[p], "DeleteEntry") /\ Succeeded(res[q], "NewEntry")
        /\ chunkToBlockID(res[p].chunk) = chunkToBlockID(res[q].chunk)
        /\ res[p].chunk # res[q].chunk
        /\ ~AllocatedIn(blocks, res[p].chunk) /\ AllocatedIn(blocks, res[q].chunk)

(***************************************************************************)
(* C17.  The content of a deleted entry does not come back under the same  *)
(* chunk number: after DeleteEntry(c, e) succeeded and a later NewEntry    *)
(* returned c, a ReadEntry(c) that no UpdateEntry of c precedes does not   *)
(* return e.                                                               *)
(***************************************************************************)
C17_DeletedContentGone ==
    [][\A p, q \in Procs :
          ( /\ Returned(p) /\ res'[p].op = "ReadEntry"
            /\ Succeeded(res[p], "DeleteEntry")
            /\ pc[q] = "idle" /\ Succeeded(res[q], "NewEntry")
            /\ res[q].chunk = res[p].chunk /\ res'[p].chunk = res[p].chunk
            /\ BagIn(res[p].chunk, handed) )
            => ~(res'[p].err = "nil" /\ EntryEquals(res'[p].out, res[p].previous))
      ]_vars

(***************************************************************************)
(* C18.  No allocation bit is leaked: every bit that NewEntry sets has an  *)
(* index below 2^E, lies in a block other than 0, and is returned to the   *)
(* caller as a chunk number in the step that sets it.                      *)
(***************************************************************************)
C18_NoBitLeaked ==
    [][\A p \in Procs :
          (pc[p] = "updateBitsetWrite" /\ pc'[p] # pc[p] /\ blocks' # blocks)
            => /\ LegalCandidate(loc[p].metachunk, loc[p].index)
               /\ Returned(p) /\ Succeeded(res'[p], "NewEntry")
               /\ chunkToBlockID(res'[p].chunk) = loc[p].metachunk
               /\ chunkToEntryNumber(res'[p].chunk) = loc[p].index
      ]_vars

(***************************************************************************)
(* C19.  Once the one teardown call that was made has returned, the serve  *)
(* goroutine has ended: it is not blocked in a send on termErr.            *)
(***************************************************************************)
C19_ServeGoroutineTerminates ==
    ( /\ \E t \in Teardowns : td[t].pc = "returned"
      /\ \A t \in Teardowns : td[t].pc \in {"idle", "returned"}
      /\ Cardinality({t \in Teardowns : td[t].pc = "returned"}) = 1 )
      => srv.serve = "done"

(***************************************************************************)
(* C20.  Putting a chunk number together and taking it apart are inverse:  *)
(* for a block id b with 0 < b < 2^(width - E) and an index i < 2^E, the   *)
(* chunk number of (b, i) has block id b and entry number i; a chunk       *)
(* number whose block id is not 0 is the chunk number of its block id and  *)
(* entry number; no two chunk numbers have the same block and slot offset. *)
(***************************************************************************)
C20_ComposeDecomposeInverse ==
    /\ ( /\ conv.op = "compose"
         /\ 0 < conv.metachunk /\ conv.metachunk < Pow2(ChunkBits - EntriesPerBlock)
         /\ conv.index < Pow2(EntriesPerBlock) )
         => /\ ~conv.panic
            /\ conv.block = conv.metachunk
            /\ conv.entry = conv.index
    /\ (conv.op = "decompose" /\ conv.metachunk # 0)
         => /\ ~conv.panic
            /\ conv.block = conv.metachunk /\ conv.entry = conv.index
            /\ Or(conv.block * Pow2(EntriesPerBlock), conv.entry) = conv.chunk
            /\ entryAndBlockToChunkNum(conv.metachunk, conv.index).chunk = conv.chunk
            /\ \A c \in ConvChunks :
                  chunkToBlockAndOffset(c) = chunkToBlockAndOffset(conv.chunk)
                     => c = conv.chunk

\* the highest block id and the highest index that are legal
C20_Witness ==
    /\ conv.op = "compose"
    /\ conv.metachunk = Pow2(ChunkBits - EntriesPerBlock) - 1
    /\ conv.index = Pow2(EntriesPerBlock) - 1
    /\ conv.chunk = Pow2(ChunkBits) - 1
    /\ conv.block = conv.metachunk /\ conv.entry = conv.index

(***************************************************************************)
(* C21.  Replica agreement under the two-phase write: when both clients    *)
(* run the protocol on the chunk from the same oldVersion v with different *)
(* data, any two replicas whose committed version is v + 1 hold the same   *)
(* content.                                                                *)
(***************************************************************************)
C21_ReplicasAgree ==
    \A v \in WriteVersions :
       (\A c \in Clients : cl[c].stage # "idle" /\ cl[c].oldVersion = v)
          => \A r, s \in Replicas :
                (reps[r].version = v + 1 /\ reps[s].version = v + 1)
                   => reps[r].data = reps[s].data

====
